---------------------------- MODULE Spec2Model ----------------------------
(***************************************************************************)
(* A model of the cloudbus segment service runtime:                        *)
(*   - async_context (interrupt cell, sigmask, stopped, scope, poller),    *)
(*   - async_service<Service> (worker thread, ISR, teardown),              *)
(*   - async_tcp_service<Handler> (start, acceptor, reader, emit, stop_),  *)
(*   - the parent thread that starts, signals and destroys the worker,     *)
(*   - the peers of the TCP listener.                                      *)
(* One step of a thread is one run of its code between two operations on   *)
(* state shared with another thread (atomics, mutexes, sockets).           *)
(***************************************************************************)
EXTENDS Integers, Sequences, FiniteSets, Bags, TLC

\* ------------------------------------------------------------------ bounds
\* signal() calls the parent makes before it destroys a worker of test_service
MaxSignals == 2
\* signal() calls the parent makes before it destroys a worker of a TCP service
MaxTcpSignals == 1
\* peers that connect to the listener
MaxConns == 1
\* bytes each peer sends
MaxBytes == 2
\* signal() calls the parent makes on the second worker
MaxOtherSignals == 1
\* bytes each peer of segment_service sends
MaxSegmentBytes == 3

\* ------------------------------------------------------- program constants
\* enum signals : std::uint8_t { terminate = 0, user1, END }
terminate == 0
user1 == 1
END == 2

Signals == 0 .. (END - 1)
\* the values signal() is called with: the signals and END, which is not one
Signums == 0 .. END
\* the services the worker is instantiated with
TcpKinds == {"async_noop_service"}
\* the stream handlers that send on the connection they read from
EchoKinds == {"echo_service", "echo_block_service", "segment_service"}
\* the connection id of the socket stop_ connects to the listener with
SelfConn == 0
Peers == 1 .. MaxConns

VARIABLES
  wpc,            \* position of the worker thread in async_service::start's lambda
  ppc,            \* position of the parent thread
  mtx,            \* owner of the external mutex given to start(): "free", "worker", "parent"
  interrupt,      \* async_context::interrupt.fn_: "empty", "sendmsg" or a test's callable
  mtx_,           \* async_context::interrupt.mtx_: "free" or "locked"
  stopped,        \* async_context::stopped
  sigmask,        \* async_context::sigmask
  stop_requested, \* async_context::scope's stop token
  isockets,       \* the socketpair <<read end, write end>>: "invalid", "open", "closed"
  pipe,           \* wake bytes written to the write end and not yet received
  pending,        \* bag of the senders spawned into the scope and unresolved in the poller
  wait_result,    \* what the worker's last poller.wait() returned
  svc,            \* the Service object constructed on the worker thread
  backlog,        \* connections established with the listener and not yet accepted
  conn,           \* per peer: the connection's state
  sig,            \* the signal() call in progress on the parent thread
  hist,           \* history: calls made, bits posted, handler invocations, notifications
  NDEBUG,         \* the build defines NDEBUG: assert() expands to nothing
  other           \* a second async_service<test_service> of the same process

vars == <<wpc, ppc, mtx, interrupt, mtx_, stopped, sigmask, stop_requested, isockets,
          pipe, pending, wait_result, svc, backlog, conn, sig, hist, NDEBUG, other>>

\* ----------------------------------------------------------------- helpers
Pow2(n) == 2 ^ n
\* (mask >> i) & 1
Bit(mask, i) == (mask \div Pow2(i)) % 2
\* mask | (1 << i); i < END, far below the width of the 64-bit mask
BitOr(mask, i) == IF Bit(mask, i) = 1 THEN mask ELSE mask + Pow2(i)
Count(s, x) == Cardinality({i \in DOMAIN s : s[i] = x})
Inc(f, x) == [f EXCEPT ![x] = @ + 1]

NoSig == [pc |-> "idle", signum |-> 0, func |-> "empty"]
SignalBound ==
  IF svc.kind \in TcpKinds \cup EchoKinds THEN MaxTcpSignals ELSE MaxSignals
\* A connection: state of the server's side; peer_open, sent: the client's
\* side; inq: bytes sent and not yet received by the server; buffer: the
\* read_context's buffer; tx: the buffers of the sendmsg in flight; out: bytes
\* the server sent to the client; seen, calls: the spans given to the read
\* callback and their number; late: the calls made with the stop requested;
\* failed: an I/O error was swallowed.
IdleConn ==
  [state |-> "closed", peer_open |-> FALSE, sent |-> 0, inq |-> <<>>,
   buffer |-> <<>>, tx |-> <<>>, out |-> <<>>, seen |-> <<>>, calls |-> 0,
   late |-> 0, failed |-> FALSE]
InSeq(x, s) == \E i \in DOMAIN s : s[i] = x
\* number of unresolved senders op in bag b
Unresolved(b, op) == CopiesIn(op, b)
Drained(b) == BagToSet(b) = {}

\* The state the loop thread alone works on while it runs a continuation.
Loop == [svc |-> svc, stop_requested |-> stop_requested, pending |-> pending,
         backlog |-> backlog, conn |-> conn, handled |-> hist.handled,
         isr_stop |-> hist.isr_stop]

\* ------------------------------------------- continuations on the loop thread
\* scope.spawn(sender): the sender is unresolved until the poller completes it
spawn(L, op) == [L EXCEPT !.pending = @ (+) SetToBag({op})]
\* the poller completes sender op: it is no longer unresolved
resolve(L, op) == [L EXCEPT !.pending = @ (-) SetToBag({op})]

\* scope.request_stop()
request_stop(L) == [L EXCEPT !.stop_requested = TRUE]

\* The last copy of the listener's dialog is dropped: the socket is closed and
\* the connections still queued on it are reset.
drop_listener(L) ==
  [L EXCEPT !.svc.listening = FALSE, !.backlog = <<>>,
            !.conn = [c \in DOMAIN L.conn |->
                        IF L.conn[c].state = "backlog"
                          THEN [L.conn[c] EXCEPT !.state = "released"]
                          ELSE L.conn[c]]]

\* The last copy of a connection's dialog and read_context is dropped.
release(L, c) == [L EXCEPT !.conn[c].state = "released"]

\* A reader without the test of the stop token.
reader_unchecked(L, c) == spawn(L, <<"recvmsg", c>>)

\* A reader that spawns two reads.
reader_twice(L, c) ==
  IF L.stop_requested THEN release(L, c)
  ELSE spawn(spawn(L, <<"recvmsg", c>>), <<"recvmsg", c>>)

\* async_tcp_service::reader
reader(L, c) ==
  IF L.stop_requested THEN release(L, c)
  ELSE spawn(L, <<"recvmsg", c>>)

\* async_tcp_service::acceptor
acceptor(L) ==
  IF L.stop_requested THEN drop_listener(L)
  ELSE spawn(L, <<"accept", 0>>)

\* A stop_ that requests the stop and connects to nothing.
stop_request_only(L) == [request_stop(L) EXCEPT !.svc.target = L.svc.address_]

\* The stop_ closure installed by async_tcp_service::start: request_stop, then
\* a connect to the service's own address spawned on the same multiplexer.
stop_(L) ==
  LET S == [spawn(request_stop(L), <<"connect", 0>>) EXCEPT !.svc.target = L.svc.address_] IN
  IF L.svc.listening /\ L.svc.address_ = L.svc.bound
    THEN [S EXCEPT !.backlog = Append(@, SelfConn), !.conn[SelfConn].state = "backlog"]
    ELSE S

\* A signal_handler that calls stop_ without testing it.
signal_handler_untested(L, signum) ==
  IF L.svc.kind = "test_service"
    THEN [L EXCEPT !.svc.test_signal = signum]
    ELSE IF signum = terminate THEN stop_(L) ELSE L

\* Service::signal_handler(signum): test_service records the signal, the TCP
\* scaffold runs stop_ on terminate when stop_ is set.
signal_handler(L, signum) ==
  IF L.svc.kind = "test_service"
    THEN [L EXCEPT !.svc.test_signal = signum]
    ELSE IF signum = terminate /\ L.svc.stop_ THEN stop_(L) ELSE L

\* A dispatch that handles terminate alone when its bit is set.
dispatch_terminate_only(L, sigmask_, signum) ==
  IF Bit(sigmask_, terminate) = 1
    THEN [signal_handler(L, terminate) EXCEPT !.handled = Append(@, terminate)]
    ELSE IF Bit(sigmask_, user1) = 1
      THEN [signal_handler(L, user1) EXCEPT !.handled = Append(@, user1)]
      ELSE L

\* A dispatch that leaves the loop after the first signal it finds.
dispatch_lowest(L, sigmask_, signum) ==
  IF sigmask_ \div Pow2(signum) = 0 THEN L
  ELSE LET i == CHOOSE i \in signum .. 63 :
                  Bit(sigmask_, i) = 1 /\ \A j \in signum .. (i - 1) : Bit(sigmask_, j) = 0
       IN [signal_handler(L, i) EXCEPT !.handled = Append(@, i)]

\* for (signum = 0; auto mask = (sigmask_ >> signum); ++signum)
\*   if (mask & 1) service.signal_handler(signum);
RECURSIVE dispatch(_, _, _)
dispatch(L, sigmask_, signum) ==
  IF sigmask_ \div Pow2(signum) = 0 THEN L
  ELSE IF Bit(sigmask_, signum) = 1
    THEN dispatch([signal_handler(L, signum) EXCEPT !.handled = Append(@, signum)],
                  sigmask_, signum + 1)
    ELSE dispatch(L, sigmask_, signum + 1)

\* A handle lambda that stops on any signal.
handle_stop_on_any(L, sigmask_) ==
  [L |-> dispatch(L, sigmask_, 0), continue |-> sigmask_ = 0]

\* The ISR's handle lambda, given the value sigmask.exchange(0) returned:
\* the state after the dispatch and the lambda's return value.
handle(L, sigmask_) ==
  [L |-> dispatch(L, sigmask_, 0), continue |-> Bit(sigmask_, terminate) = 0]

\* An isr that spawns the read of the next wake byte whatever handle returned.
isr_rearms(L, sigmask_) ==
  LET h == handle(L, sigmask_) IN
  spawn(IF ~h.continue THEN [request_stop(h.L) EXCEPT !.isr_stop = TRUE] ELSE h.L,
        <<"isr", 0>>)

\* async_service::isr: run handle; stop the scope if it says so, otherwise
\* spawn the read of the next wake byte.
isr(L, sigmask_) ==
  LET h == handle(L, sigmask_) IN
  IF ~h.continue
    THEN [request_stop(h.L) EXCEPT !.isr_stop = TRUE]
    ELSE spawn(h.L, <<"isr", 0>>)

\* async_tcp_service::initialize_: the steps run until the first that fails
\* (fail = "none": all succeed), and the error returned.
\* what the handler's initialize member returns, "none" if it has no such member
HandlerInitialize(kind) ==
  CASE kind = "echo_block_service" -> "error_code"
    [] kind = "segment_service" -> "void"
    [] OTHER -> "none"
\* requires(TCPStreamHandler handler) {
\*   { handler.initialize(socket) } -> std::same_as<std::error_code>; }
DelegatesInitialize(kind) == HandlerInitialize(kind) = "error_code"
SetupSteps(kind) ==
  IF DelegatesInitialize(kind)
    THEN <<"setsockopt", "initialize", "bind", "getsockname", "listen">>
    ELSE <<"setsockopt", "bind", "getsockname", "listen">>
\* the system calls the environment may fail
SetupFailures(kind) == {"none", "setsockopt", "bind", "listen"}
\* Setup that runs every step whatever failed.
initialize_steps_all(steps, fail, done) == done \o steps
RECURSIVE initialize_steps(_, _, _)
initialize_steps(steps, fail, done) ==
  IF steps = <<>> THEN done
  ELSE IF Head(steps) = fail THEN Append(done, Head(steps))
  ELSE initialize_steps(Tail(steps), fail, Append(done, Head(steps)))
\* bind(socket, address_): the address the socket is bound to; with port 0 the
\* system chooses an ephemeral port
bind(address) == IF address = "any_port" THEN "ephemeral_port" ELSE address
\* An initialize_ that keeps the address it was constructed with.
getsockname_requested(bound, address) == address
\* getsockname(socket, address_): the address the socket is bound to
getsockname(bound, address) == bound
\* echo_block_service::initialize fails when initialized is already set
initialize_(L, fail) ==
  LET steps == SetupSteps(L.svc.kind)
      reached == initialize_steps(steps, fail, <<>>)
      f == IF InSeq("initialize", reached) /\ L.svc.initialized
             THEN "initialize" ELSE fail
      ran == initialize_steps(steps, f, <<>>)
      bound == IF InSeq("bind", ran) /\ f # "bind"
                 THEN bind(L.svc.address_) ELSE "unbound"
  IN [L |-> [L EXCEPT !.svc.setup = ran, !.svc.error = f,
                      !.svc.bound = bound,
                      !.svc.address_ = IF InSeq("getsockname", ran)
                                         THEN getsockname(bound, @) ELSE @,
                      !.svc.initialized = @ \/ InSeq("initialize", ran),
                      !.svc.listening = (f = "none")],
      error |-> f # "none"]

\* A start that goes on after initialize_ returned an error.
tcp_start_ignores_error(L, fail) ==
  acceptor([initialize_(L, fail).L EXCEPT !.svc.stop_ = TRUE, !.svc.emplaced = TRUE])

\* async_tcp_service::start
tcp_start(L, fail) ==
  LET i == initialize_(L, fail) IN
  IF i.error THEN request_stop(i.L)
  ELSE acceptor([i.L EXCEPT !.svc.stop_ = TRUE, !.svc.emplaced = TRUE])

\* test_service::start
test_start(L) == [L EXCEPT !.svc.test_started = TRUE]

\* io::sendmsg(socket, msg, 0) | then(...) | upon_error(...) spawned into the scope
sendmsg(L, c, msg) == spawn([L EXCEPT !.conn[c].tx = msg], <<"sendmsg", c>>)

\* echo_service::echo: send what write_queue::get() returns (the bytes queued,
\* fewer than one queue buffer here)
echo(L, c) == IF L.svc.queue = <<>> THEN L ELSE sendmsg(L, c, L.svc.queue)

\* Handlers that start the reader as soon as their send is spawned.
handler_reads_on(L, c, buf) ==
  CASE L.svc.kind = "async_noop_service" ->
         reader([L EXCEPT !.svc.msg = @ \o buf], c)
    [] L.svc.kind = "echo_service" ->
         LET Q == [L EXCEPT !.svc.queue = @ \o buf] IN
         reader(IF Len(Q.svc.queue) = Len(buf) THEN echo(Q, c) ELSE Q, c)
    [] L.svc.kind \in {"echo_block_service", "segment_service"} ->
         reader(sendmsg(L, c, buf), c)

\* The stream handler's operator()
handler(L, c, buf) ==
  CASE L.svc.kind = "async_noop_service" ->
         reader([L EXCEPT !.svc.msg = @ \o buf], c)
    [] L.svc.kind = "echo_service" ->
         LET Q == [L EXCEPT !.svc.queue = @ \o buf] IN
         reader(IF Len(Q.svc.queue) = Len(buf) THEN echo(Q, c) ELSE Q, c)
    [] L.svc.kind \in {"echo_block_service", "segment_service"} ->
         sendmsg(L, c, buf)

\* A sendmsg continuation that restarts the reader whatever was sent.
sent_then_reader(L, c, len) ==
  reader([L EXCEPT !.conn[c].out = @ \o SubSeq(L.conn[c].tx, 1, len),
                   !.conn[c].tx = <<>>], c)

\* the continuation of the handler's sendmsg with len bytes sent
sent(L, c, len) ==
  LET S == [L EXCEPT !.conn[c].out = @ \o SubSeq(L.conn[c].tx, 1, len),
                     !.conn[c].tx = SubSeq(@, len + 1, Len(@))] IN
  CASE L.svc.kind = "echo_service" ->
         echo([S EXCEPT !.svc.queue = SubSeq(@, len + 1, Len(@)),
                        !.conn[c].tx = <<>>], c)
    [] L.svc.kind = "echo_block_service" ->
         IF S.conn[c].tx # <<>> THEN sendmsg(S, c, S.conn[c].tx) ELSE reader(S, c)
    [] L.svc.kind = "segment_service" ->
         reader([S EXCEPT !.conn[c].tx = <<>>], c)

\* the handler's sendmsg fails: upon_error swallows the error and drops what
\* the continuation held
send_failed(L, c) ==
  LET F == [L EXCEPT !.conn[c].failed = TRUE, !.conn[c].tx = <<>>] IN
  IF L.svc.kind = "echo_service" THEN F ELSE release(F, c)

\* A span one byte short of what was received.
span_short(buffer, len) == SubSeq(buffer, 1, len - 1)

\* std::span{rmsg->buffer.data(), static_cast<size_type>(len)}
span(buffer, len) == SubSeq(buffer, 1, len)

\* An emit that restarts the reader itself after the callback.
emit_rearms(L, c, buf) ==
  reader(handler([L EXCEPT !.conn[c].seen = @ \o buf, !.conn[c].calls = @ + 1,
                   !.conn[c].late = IF L.stop_requested THEN @ + 1 ELSE @],
                 c, buf), c)

\* async_tcp_service::emit: the read callback is given the span
emit(L, c, buf) ==
  handler([L EXCEPT !.conn[c].seen = @ \o buf, !.conn[c].calls = @ + 1,
                   !.conn[c].late = IF L.stop_requested THEN @ + 1 ELSE @], c, buf)

\* An accept continuation that arms the acceptor before and after the reader.
accepted_rearms_twice(L, c) ==
  acceptor(reader(acceptor([L EXCEPT !.conn[c].state = "open"]), c))

\* the continuation of accept: reader on the new dialog, then acceptor
accepted(L, c) == acceptor(reader([L EXCEPT !.conn[c].state = "open"], c))

\* A recvmsg continuation without the test of len.
received_unchecked(L, c, len) ==
  LET R == [L EXCEPT !.conn[c].inq = SubSeq(@, len + 1, Len(@)),
                     !.conn[c].buffer = SubSeq(L.conn[c].inq, 1, len)
                                          \o SubSeq(@, len + 1, Len(@))]
  IN emit(R, c, span(R.conn[c].buffer, len))

\* the continuation of recvmsg with len bytes received
received(L, c, len) ==
  IF len = 0 THEN release(L, c)
  ELSE LET R == [L EXCEPT !.conn[c].inq = SubSeq(@, len + 1, Len(@)),
                          !.conn[c].buffer = SubSeq(L.conn[c].inq, 1, len)
                                               \o SubSeq(@, len + 1, Len(@))]
       IN emit(R, c, span(R.conn[c].buffer, len))

\* Write the loop thread's state back.
Commit(L) ==
  /\ svc' = L.svc
  /\ stop_requested' = L.stop_requested
  /\ pending' = L.pending
  /\ backlog' = L.backlog
  /\ conn' = L.conn
  /\ hist' = [hist EXCEPT !.handled = L.handled, !.isr_stop = L.isr_stop]

\* ------------------------------------------------------------ initial state
\* address_: the address the service was constructed with (port 8080 as in
\* ReadTest) until getsockname overwrites it; bound: the address the listening
\* socket is bound to; target: the address stop_ connected to.
InitSvc(kind) ==
  [kind |-> kind, test_started |-> FALSE, test_signal |-> -1,
   stop_ |-> FALSE, listening |-> FALSE, emplaced |-> FALSE, setup |-> <<>>,
   error |-> "unset", initialized |-> FALSE, msg |-> <<>>, queue |-> <<>>,
   address_ |-> "fixed_port", bound |-> "unbound", target |-> "none"]

InitHist ==
  [called |-> [n \in Signums |-> 0],   \* signal(n) calls begun
   posted |-> [n \in Signums |-> 0],   \* fetch_or(1 << n) executed
   invoked |-> [n \in Signums |-> 0],  \* interrupt() invoked by signal(n)
   handled |-> <<>>,                   \* signal_handler invocations, in order
   isr_stop |-> FALSE,                 \* the ISR has called scope.request_stop()
   installed |-> 0,                    \* assignments of the wake closure to interrupt
   notified |-> 0,                     \* cvar.notify_all() calls
   woken |-> 0,                        \* notifications that found the parent waiting
   nsignals |-> 0,                     \* signal() calls made by the parent's program
   ran |-> <<>>]                       \* the test callables run by interrupt(), in order

\* The second worker before its start(): its thread, its context's sigmask
\* and wake bytes, the signal() calls made on it, its loop thread's state.
IdleWorker ==
  [wpc |-> "unstarted", sigmask |-> 0, pipe |-> <<>>, nsignals |-> 0,
   L |-> [svc |-> InitSvc("test_service"), stop_requested |-> FALSE,
          pending |-> EmptyBag, backlog |-> <<>>,
          conn |-> [c \in {SelfConn} \cup Peers |-> IdleConn],
          handled |-> <<>>, isr_stop |-> FALSE]]

\* The signals given to signal() are in range, so the assertion holds in a
\* build of either kind.
InitWith(services) ==
  /\ NDEBUG = FALSE
  /\ other = IdleWorker
  /\ wpc = "unstarted"
  /\ ppc = "init"
  /\ mtx = "free"
  /\ interrupt = "empty"
  /\ mtx_ = "free"
  /\ stopped = FALSE
  /\ sigmask = 0
  /\ stop_requested = FALSE
  /\ isockets = <<"invalid", "invalid">>
  /\ pipe = <<>>
  /\ pending = EmptyBag
  /\ wait_result = "none"
  /\ svc \in services
  /\ backlog = <<>>
  /\ conn = [c \in {SelfConn} \cup Peers |-> IdleConn]
  /\ sig = NoSig
  /\ hist = InitHist

\* async_service<test_service>, as in the tests of async_service
Init == InitWith({InitSvc("test_service")})
\* async_service over a TCP service
\* A service constructed with port 0, as in StartTest.
AnyPort(kind) == [InitSvc(kind) EXCEPT !.address_ = "any_port"]
TcpInit == InitWith({InitSvc(k) : k \in TcpKinds} \cup {AnyPort(k) : k \in TcpKinds})
\* async_service over a stream handler that sends; echo_block_service may be
\* given to start with initialized already set
EchoInit ==
  InitWith({InitSvc(k) : k \in EchoKinds}
             \cup {[InitSvc("echo_block_service") EXCEPT !.initialized = TRUE],
                   AnyPort("echo_block_service")})

\* --------------------------------------------------------- the worker thread
\* async_service::start: server_ = std::thread(...)
Start ==
  /\ ppc = "init" /\ wpc = "unstarted"
  /\ ppc' = "started" /\ wpc' = "socketpair"
  /\ UNCHANGED <<NDEBUG, other, mtx_, mtx, interrupt, stopped, sigmask, stop_requested, isockets, pipe,
                 pending, wait_result, svc, backlog, conn, sig, hist>>

\* socketpair(AF_UNIX, SOCK_STREAM, 0, isockets.data()) succeeds
SocketpairOk ==
  /\ wpc = "socketpair"
  /\ isockets' = <<"open", "open">>
  /\ wpc' = "install"
  /\ UNCHANGED <<NDEBUG, other, mtx_, ppc, mtx, interrupt, stopped, sigmask, stop_requested, pipe,
                 pending, wait_result, svc, backlog, conn, sig, hist>>

\* socketpair fails: straight to the teardown
SocketpairFail ==
  /\ wpc = "socketpair"
  /\ wpc' = "stop1"
  /\ UNCHANGED <<NDEBUG, other, mtx_, ppc, mtx, interrupt, stopped, sigmask, stop_requested, isockets,
                 pipe, pending, wait_result, svc, backlog, conn, sig, hist>>

\* The interrupt assigned without taking the mutex.
Install_unlocked ==
  /\ wpc = "install"
  /\ interrupt' = "sendmsg"
  /\ hist' = [hist EXCEPT !.installed = @ + 1]
  /\ wpc' = "prime"
  /\ UNCHANGED <<NDEBUG, other, mtx_, ppc, mtx, stopped, sigmask, stop_requested, isockets, pipe,
                 pending, wait_result, svc, backlog, conn, sig>>

\* with_lock(std::unique_lock{mtx}, [&] { interrupt = [socket = isockets[1]] {...}; })
Install ==
  /\ wpc = "install"
  /\ mtx = "free"
  /\ interrupt' = "sendmsg"
  /\ hist' = [hist EXCEPT !.installed = @ + 1]
  /\ wpc' = "prime"
  /\ UNCHANGED <<NDEBUG, other, mtx_, ppc, mtx, stopped, sigmask, stop_requested, isockets, pipe,
                 pending, wait_result, svc, backlog, conn, sig>>

\* A load where the exchange is meant: the pending bits are read and left set.
exchange_load(desired) == [old |-> sigmask, new |-> sigmask]

\* sigmask.exchange(desired): the value read and the value left
exchange(desired) == [old |-> sigmask, new |-> desired]

\* isr(scope, poller.emplace(isockets[0]), handle): the first run of the ISR
Prime ==
  /\ wpc = "prime"
  /\ sigmask' = exchange(0).new
  /\ Commit(isr(Loop, exchange(0).old))
  /\ wpc' = "notify"
  /\ UNCHANGED <<NDEBUG, other, mtx_, ppc, mtx, interrupt, stopped, isockets, pipe, wait_result, sig>>

\* cvar.notify_all(): a thread blocked in cvar.wait goes on to take the mutex
notify_all == IF ppc = "cv_waiting" THEN "cv_lock" ELSE ppc

Notify ==
  /\ wpc = "notify"
  /\ ppc' = notify_all
  /\ hist' = [hist EXCEPT !.notified = @ + 1,
                          !.woken = IF ppc = "cv_waiting" THEN @ + 1 ELSE @]
  /\ wpc' = "start"
  /\ UNCHANGED <<NDEBUG, other, mtx_, mtx, interrupt, stopped, sigmask, stop_requested, isockets, pipe,
                 pending, wait_result, svc, backlog, conn, sig>>

\* service.start(ctx) of test_service
StartTestService ==
  /\ wpc = "start" /\ svc.kind = "test_service"
  /\ Commit(test_start(Loop))
  /\ wpc' = "loop"
  /\ UNCHANGED <<NDEBUG, other, mtx_, ppc, mtx, interrupt, stopped, sigmask, isockets, pipe, wait_result, sig>>

\* service.start(ctx) of a TCP service; the environment decides which setup
\* call fails, if any
StartTcpService ==
  /\ wpc = "start" /\ svc.kind # "test_service"
  /\ \E fail \in SetupFailures(svc.kind) : Commit(tcp_start(Loop, fail))
  /\ wpc' = "loop"
  /\ UNCHANGED <<NDEBUG, other, mtx_, ppc, mtx, interrupt, stopped, sigmask, isockets, pipe, wait_result, sig>>

\* An event loop that ends as soon as the scope's stop is requested.
WaitFalsy_on_stop ==
  /\ wpc = "loop"
  /\ stop_requested
  /\ wait_result' = "falsy"
  /\ wpc' = "stop1"
  /\ UNCHANGED <<NDEBUG, other, mtx_, ppc, mtx, interrupt, stopped, sigmask, stop_requested, isockets,
                 pipe, pending, svc, backlog, conn, sig, hist>>

\* while (poller.wait()); -- wait() returns falsy when no sender is unresolved
WaitFalsy ==
  /\ wpc = "loop"
  /\ Drained(pending)
  /\ wait_result' = "falsy"
  /\ wpc' = "stop1"
  /\ UNCHANGED <<NDEBUG, other, mtx_, ppc, mtx, interrupt, stopped, sigmask, stop_requested, isockets,
                 pipe, pending, svc, backlog, conn, sig, hist>>

\* wait() completes the ISR's recvmsg: some wake bytes are read (and dropped),
\* then isr runs again
IsrWake ==
  /\ wpc = "loop"
  /\ BagIn(<<"isr", 0>>, pending)
  /\ pipe # <<>>
  /\ \E k \in 1 .. Len(pipe) : pipe' = SubSeq(pipe, k + 1, Len(pipe))
  /\ sigmask' = exchange(0).new
  /\ Commit(isr(resolve(Loop, <<"isr", 0>>), exchange(0).old))
  /\ wait_result' = "truthy"
  /\ UNCHANGED <<NDEBUG, other, mtx_, wpc, ppc, mtx, interrupt, stopped, isockets, sig>>

\* wait() completes the accept with the first queued connection
AcceptComplete ==
  /\ wpc = "loop"
  /\ BagIn(<<"accept", 0>>, pending)
  /\ backlog # <<>>
  /\ Commit(accepted([resolve(Loop, <<"accept", 0>>) EXCEPT !.backlog = Tail(@)],
                     Head(backlog)))
  /\ wait_result' = "truthy"
  /\ UNCHANGED <<NDEBUG, other, mtx_, wpc, ppc, mtx, interrupt, stopped, sigmask, isockets, pipe, sig>>

\* An accept whose error handler arms the acceptor again.
AcceptError_rearms ==
  /\ wpc = "loop"
  /\ BagIn(<<"accept", 0>>, pending)
  /\ Commit(acceptor(resolve(Loop, <<"accept", 0>>)))
  /\ wait_result' = "truthy"
  /\ UNCHANGED <<NDEBUG, other, mtx_, wpc, ppc, mtx, interrupt, stopped, sigmask, isockets, pipe, sig>>

\* wait() completes the accept with an error: upon_error swallows it
AcceptError ==
  /\ wpc = "loop"
  /\ BagIn(<<"accept", 0>>, pending)
  /\ Commit(drop_listener(resolve(Loop, <<"accept", 0>>)))
  /\ wait_result' = "truthy"
  /\ UNCHANGED <<NDEBUG, other, mtx_, wpc, ppc, mtx, interrupt, stopped, sigmask, isockets, pipe, sig>>

\* wait() completes a connection's recvmsg: len > 0 bytes of what the peer
\* sent, or 0 when the peer has closed and nothing is left
RecvComplete(c) ==
  /\ wpc = "loop"
  /\ BagIn(<<"recvmsg", c>>, pending)
  /\ \E len \in 0 .. Len(conn[c].inq) :
       /\ IF conn[c].inq = <<>> THEN ~conn[c].peer_open ELSE len > 0
       /\ Commit(received(resolve(Loop, <<"recvmsg", c>>), c, len))
  /\ wait_result' = "truthy"
  /\ UNCHANGED <<NDEBUG, other, mtx_, wpc, ppc, mtx, interrupt, stopped, sigmask, isockets, pipe, sig>>

\* wait() completes a connection's recvmsg with an error: upon_error swallows it
RecvError(c) ==
  /\ wpc = "loop"
  /\ BagIn(<<"recvmsg", c>>, pending)
  /\ Commit(release([resolve(Loop, <<"recvmsg", c>>) EXCEPT !.conn[c].failed = TRUE], c))
  /\ wait_result' = "truthy"
  /\ UNCHANGED <<NDEBUG, other, mtx_, wpc, ppc, mtx, interrupt, stopped, sigmask, isockets, pipe, sig>>

\* wait() completes a handler's sendmsg: len > 0 of the bytes offered are sent
SendComplete(c) ==
  /\ wpc = "loop"
  /\ BagIn(<<"sendmsg", c>>, pending)
  /\ \E len \in 1 .. Len(conn[c].tx) :
       Commit(sent(resolve(Loop, <<"sendmsg", c>>), c, len))
  /\ wait_result' = "truthy"
  /\ UNCHANGED <<NDEBUG, other, mtx_, wpc, ppc, mtx, interrupt, stopped, sigmask, isockets, pipe, sig>>

\* wait() completes a handler's sendmsg with an error
SendError(c) ==
  /\ wpc = "loop"
  /\ BagIn(<<"sendmsg", c>>, pending)
  /\ Commit(send_failed(resolve(Loop, <<"sendmsg", c>>), c))
  /\ wait_result' = "truthy"
  /\ UNCHANGED <<NDEBUG, other, mtx_, wpc, ppc, mtx, interrupt, stopped, sigmask, isockets, pipe, sig>>

\* wait() completes stop_'s connect (status or error, both ignored)
ConnectComplete ==
  /\ wpc = "loop"
  /\ BagIn(<<"connect", 0>>, pending)
  /\ Commit(resolve(Loop, <<"connect", 0>>))
  /\ wait_result' = "truthy"
  /\ UNCHANGED <<NDEBUG, other, mtx_, wpc, ppc, mtx, interrupt, stopped, sigmask, isockets, pipe, sig>>

\* stop() that closes the socket without the INVALID_SOCKET test.
stop_close_always(step) ==
  \/ /\ step = 1
     /\ interrupt' = "empty"
     /\ UNCHANGED <<NDEBUG, other, stopped, isockets>>
  \/ /\ step = 2
     /\ stopped' = TRUE
     /\ UNCHANGED <<NDEBUG, other, interrupt, isockets>>
  \/ /\ step = 3
     /\ isockets' = <<isockets[1], "closed">>
     /\ UNCHANGED <<NDEBUG, other, interrupt, stopped>>

\* stop() that sets stopped before it clears the interrupt.
stop_set_first(step) ==
  \/ /\ step = 1
     /\ stopped' = TRUE
     /\ UNCHANGED <<NDEBUG, other, interrupt, isockets>>
  \/ /\ step = 2
     /\ interrupt' = "empty"
     /\ UNCHANGED <<NDEBUG, other, stopped, isockets>>
  \/ /\ step = 3
     /\ isockets' = IF isockets[2] = "invalid" THEN isockets
                    ELSE <<isockets[1], "closed">>
     /\ UNCHANGED <<NDEBUG, other, interrupt, stopped>>

\* async_service::stop(socket), one operation on shared state per step
stop(step) ==
  \/ /\ step = 1
     /\ interrupt' = "empty"
     /\ UNCHANGED <<NDEBUG, other, stopped, isockets>>
  \/ /\ step = 2
     /\ stopped' = TRUE
     /\ UNCHANGED <<NDEBUG, other, interrupt, isockets>>
  \/ /\ step = 3
     /\ isockets' = IF isockets[2] = "invalid" THEN isockets
                    ELSE <<isockets[1], "closed">>
     /\ UNCHANGED <<NDEBUG, other, interrupt, stopped>>

\* with_lock(std::unique_lock{mtx}, [&] { stop(isockets[1]); })
Teardown ==
  /\ wpc \in {"stop1", "stop2", "stop3"}
  /\ \/ /\ wpc = "stop1" /\ mtx = "free"
        /\ stop(1) /\ mtx' = "worker" /\ wpc' = "stop2"
     \/ /\ wpc = "stop2"
        /\ stop(2) /\ mtx' = mtx /\ wpc' = "stop3"
     \/ /\ wpc = "stop3"
        /\ stop(3) /\ mtx' = "free" /\ wpc' = "notify_stop"
  /\ UNCHANGED <<NDEBUG, other, mtx_, ppc, sigmask, stop_requested, pipe, pending, wait_result, svc,
                 backlog, conn, sig, hist>>

\* cvar.notify_all() after the teardown; the thread function returns
NotifyStop ==
  /\ wpc = "notify_stop"
  /\ ppc' = notify_all
  /\ hist' = [hist EXCEPT !.notified = @ + 1,
                          !.woken = IF ppc = "cv_waiting" THEN @ + 1 ELSE @]
  /\ wpc' = "returned"
  /\ UNCHANGED <<NDEBUG, other, mtx_, mtx, interrupt, stopped, sigmask, stop_requested, isockets, pipe,
                 pending, wait_result, svc, backlog, conn, sig>>

\* --------------------------------------------------------- the parent thread
\* The parent goes on without waiting for the worker.
CvSkip ==
  /\ ppc = "started"
  /\ ppc' = "ready"
  /\ UNCHANGED <<NDEBUG, other, mtx_, wpc, mtx, interrupt, stopped, sigmask, stop_requested, isockets,
                 pipe, pending, wait_result, svc, backlog, conn, sig, hist>>

\* auto lock = std::unique_lock{mtx}; also the re-lock after a notification
CvLock ==
  /\ ppc \in {"started", "cv_lock"}
  /\ mtx = "free"
  /\ mtx' = "parent"
  /\ ppc' = "cv_check"
  /\ UNCHANGED <<NDEBUG, other, mtx_, wpc, interrupt, stopped, sigmask, stop_requested, isockets, pipe,
                 pending, wait_result, svc, backlog, conn, sig, hist>>

\* cvar.wait(lock, [&] { return service.interrupt || service.stopped; }):
\* the predicate is evaluated with the mutex held
CvCheck ==
  /\ ppc = "cv_check"
  /\ IF interrupt # "empty" \/ stopped
       THEN ppc' = "ready" /\ mtx' = "free"
       ELSE ppc' = "cv_block" /\ mtx' = mtx
  /\ UNCHANGED <<NDEBUG, other, mtx_, wpc, interrupt, stopped, sigmask, stop_requested, isockets, pipe,
                 pending, wait_result, svc, backlog, conn, sig, hist>>

\* the wait releases the mutex and blocks, atomically
CvBlock ==
  /\ ppc = "cv_block"
  /\ ppc' = "cv_waiting"
  /\ mtx' = "free"
  /\ UNCHANGED <<NDEBUG, other, mtx_, wpc, interrupt, stopped, sigmask, stop_requested, isockets, pipe,
                 pending, wait_result, svc, backlog, conn, sig, hist>>

\* the parent's program calls service.signal(n):
\* assert(signum >= 0 && signum < END) aborts the process unless the build
\* defines NDEBUG
SignalCall(n) ==
  /\ ppc = "ready"
  /\ hist.nsignals < SignalBound
  /\ IF n \in Signals \/ NDEBUG
       THEN ppc' = "signal" /\ sig' = [pc |-> "test", signum |-> n, func |-> "empty"]
       ELSE ppc' = "aborted" /\ sig' = NoSig
  /\ hist' = [hist EXCEPT !.nsignals = @ + 1, !.called = Inc(@, n)]
  /\ UNCHANGED <<NDEBUG, other, mtx_, wpc, mtx, interrupt, stopped, sigmask, stop_requested, isockets,
                 pipe, pending, wait_result, svc, backlog, conn>>

\* ~async_service: signal(terminate), then server_.join(); the object may be
\* destroyed without start() having been called on it
Destroy ==
  /\ ppc \in {"init", "ready"}
  /\ ppc' = "dtor"
  /\ sig' = [pc |-> "test", signum |-> terminate, func |-> "empty"]
  /\ hist' = [hist EXCEPT !.called = Inc(@, terminate)]
  /\ UNCHANGED <<NDEBUG, other, mtx_, wpc, mtx, interrupt, stopped, sigmask, stop_requested, isockets,
                 pipe, pending, wait_result, svc, backlog, conn>>

\* where a signal() call goes when it returns
Return == IF ppc = "dtor" THEN "join" ELSE "ready"

\* signal() with the wake sent before the bit is set.
signal_next_wake_first(pc) ==
  CASE pc = "test" -> "snapshot"
    [] pc = "snapshot" -> "invoke"
    [] pc = "invoke" -> "or"
    [] pc = "or" -> "idle"

\* async_context::signal and interrupt_type::operator(), in program order:
\* if (interrupt) { sigmask.fetch_or(1 << signum); interrupt(); } where
\* interrupt() takes a snapshot of fn_ under the cell's mutex and invokes it
signal_next(pc) ==
  CASE pc = "test" -> "or"
    [] pc = "or" -> "snapshot"
    [] pc = "snapshot" -> "invoke"
    [] pc = "invoke" -> "idle"

\* the call's state after the step at sig.pc
Advance(s) ==
  IF signal_next(s.pc) = "idle" THEN NoSig ELSE [s EXCEPT !.pc = signal_next(s.pc)]
AdvancePc == IF signal_next(sig.pc) = "idle" THEN Return ELSE ppc

\* signal() without the test of the interrupt.
SignalTest_untested ==
  /\ sig.pc = "test"
  /\ sig' = Advance(sig) /\ ppc' = AdvancePc
  /\ UNCHANGED <<NDEBUG, other, mtx_, wpc, mtx, interrupt, stopped, sigmask, stop_requested, isockets,
                 pipe, pending, wait_result, svc, backlog, conn, hist>>

\* if (interrupt): operator bool reads fn_ under mtx_
SignalTest ==
  /\ sig.pc = "test"
  /\ mtx_ = "free"
  /\ IF interrupt # "empty"
       THEN sig' = Advance(sig) /\ ppc' = AdvancePc
       ELSE sig' = NoSig /\ ppc' = Return
  /\ UNCHANGED <<NDEBUG, other, mtx_, wpc, mtx, interrupt, stopped, sigmask, stop_requested, isockets,
                 pipe, pending, wait_result, svc, backlog, conn, hist>>

\* sigmask.fetch_or(1 << signum)
SignalOr ==
  /\ sig.pc = "or"
  /\ sigmask' = BitOr(sigmask, sig.signum)
  /\ sig' = Advance(sig) /\ ppc' = AdvancePc
  /\ hist' = [hist EXCEPT !.posted = Inc(@, sig.signum)]
  /\ UNCHANGED <<NDEBUG, other, mtx_, wpc, mtx, interrupt, stopped, stop_requested, isockets, pipe,
                 pending, wait_result, svc, backlog, conn>>

\* A with_lock whose lock outlives the call and is held until operator() returns.
with_lock_kept == "locked"

\* detail::with_lock(std::unique_lock{mtx_}, func): the state of the mutex
\* once the call has returned and the lock it was given is destroyed
with_lock == "free"

\* interrupt_type::operator(): auto func = with_lock(lock, [&] { return fn_; })
SignalSnapshot ==
  /\ sig.pc = "snapshot"
  /\ mtx_ = "free"
  /\ mtx_' = with_lock
  /\ sig' = Advance([sig EXCEPT !.func = interrupt]) /\ ppc' = AdvancePc
  /\ UNCHANGED <<NDEBUG, other, wpc, mtx, interrupt, stopped, sigmask, stop_requested,
                 isockets, pipe, pending, wait_result, svc, backlog, conn, hist>>

\* The callables a test installs: one that counts its calls, as in SignalTest,
\* and ones that clear the cell, assign it or test it from inside the call.
Callables == {"count", "clear", "assign", "test"}
\* the callable's body calls operator= or operator bool of the cell
Reenters(func) == func \in {"clear", "assign", "test"}
\* fn_ once the callable has run
body(func, fn_) ==
  CASE func = "clear" -> "empty"
    [] func = "assign" -> "count"
    [] OTHER -> fn_

\* An interrupt that dispatches the signals on the thread that calls signal().
SignalInvoke_inline ==
  /\ sig.pc = "invoke"
  /\ sigmask' = 0
  /\ Commit(dispatch(Loop, sigmask, 0))
  /\ sig' = Advance(sig) /\ ppc' = AdvancePc
  /\ UNCHANGED <<NDEBUG, other, wpc, mtx, mtx_, interrupt, stopped, isockets, pipe, wait_result>>

\* func(): the wake closure sends one byte on the write end; a test's
\* callable runs its body, taking mtx_ where it uses the cell; an empty
\* std::function throws std::bad_function_call out of signal()
SignalInvoke ==
  /\ sig.pc = "invoke"
  /\ Reenters(sig.func) => mtx_ = "free"
  /\ hist' = [hist EXCEPT !.invoked = Inc(@, sig.signum),
                          !.ran = IF sig.func \in Callables
                                    THEN Append(@, sig.func) ELSE @]
  /\ interrupt' = body(sig.func, interrupt)
  /\ mtx_' = "free"
  /\ IF sig.func = "empty"
       THEN sig' = NoSig /\ ppc' = "threw" /\ pipe' = pipe
       ELSE /\ sig' = Advance(sig) /\ ppc' = AdvancePc
            /\ pipe' = IF sig.func = "sendmsg" /\ isockets[2] = "open"
                         THEN Append(pipe, sig.signum) ELSE pipe
  /\ UNCHANGED <<NDEBUG, other, wpc, mtx, stopped, sigmask, stop_requested, isockets,
                 pending, wait_result, svc, backlog, conn>>

\* ctx.interrupt = callable, by the program of a test on a bare context
Assign(k) ==
  /\ ppc = "ready" /\ wpc = "unstarted"
  /\ mtx_ = "free"
  /\ interrupt # k
  /\ interrupt' = k
  /\ UNCHANGED <<NDEBUG, other, wpc, ppc, mtx, mtx_, stopped, sigmask, stop_requested, isockets,
                 pipe, pending, wait_result, svc, backlog, conn, sig, hist>>

\* server_.join() returns once the thread function has returned
Join ==
  /\ ppc = "join"
  /\ wpc = "returned"
  /\ ppc' = "joined"
  /\ UNCHANGED <<NDEBUG, other, mtx_, wpc, mtx, interrupt, stopped, sigmask, stop_requested, isockets,
                 pipe, pending, wait_result, svc, backlog, conn, sig, hist>>

\* server_.join() on a default-constructed std::thread: it is not joinable,
\* join throws std::system_error and the exception leaves the destructor
JoinUnstarted ==
  /\ ppc = "join"
  /\ wpc = "unstarted"
  /\ ppc' = "terminated"
  /\ UNCHANGED <<NDEBUG, other, mtx_, wpc, mtx, interrupt, stopped, sigmask, stop_requested,
                 isockets, pipe, pending, wait_result, svc, backlog, conn, sig, hist>>

\* ------------------------------------------------------- the second worker
\* The state of the first worker, its context and its parent's calls.
First == <<wpc, ppc, mtx, interrupt, mtx_, stopped, sigmask, stop_requested, isockets,
           pipe, pending, wait_result, svc, backlog, conn, sig, hist, NDEBUG>>

\* the program starts a second async_service<test_service>
OtherStart ==
  /\ ppc \in {"init", "ready"}
  /\ other.wpc = "unstarted"
  /\ other' = [other EXCEPT !.wpc = "prime"]
  /\ UNCHANGED First

\* the second worker's thread up to its loop: socketpair, the wake closure
\* installed, the first run of isr (of the same instantiation, so with the
\* same static buffer), service.start
OtherPrime ==
  /\ other.wpc = "prime"
  /\ other' = [other EXCEPT !.wpc = "loop", !.sigmask = 0,
                            !.L = test_start(isr(other.L, other.sigmask))]
  /\ UNCHANGED First

\* signal(n) on the second worker with its interrupt installed
OtherSignal(n) ==
  /\ ppc = "ready"
  /\ other.wpc = "loop"
  /\ other.nsignals < MaxOtherSignals
  /\ other' = [other EXCEPT !.sigmask = BitOr(@, n), !.pipe = Append(@, n),
                            !.nsignals = @ + 1]
  /\ UNCHANGED First

\* the second worker's wait() completes its ISR's recvmsg
OtherWake ==
  /\ other.wpc = "loop"
  /\ BagIn(<<"isr", 0>>, other.L.pending)
  /\ other.pipe # <<>>
  /\ \E k \in 1 .. Len(other.pipe) :
       other' = [other EXCEPT !.pipe = SubSeq(@, k + 1, Len(@)), !.sigmask = 0,
                              !.L = isr(resolve(other.L, <<"isr", 0>>), other.sigmask)]
  /\ UNCHANGED First

\* the second worker's wait() returns falsy and its thread function returns
OtherReturn ==
  /\ other.wpc = "loop"
  /\ Drained(other.L.pending)
  /\ other' = [other EXCEPT !.wpc = "returned"]
  /\ UNCHANGED First

OtherWorker ==
  \/ OtherStart \/ OtherPrime \/ (\E n \in Signals : OtherSignal(n))
  \/ OtherWake \/ OtherReturn

\* ------------------------------------------------- the peers of the listener
PeerConnect(c) ==
  /\ svc.listening
  /\ conn[c].state = "closed" /\ ~conn[c].peer_open /\ conn[c].sent = 0
  /\ conn' = [conn EXCEPT ![c].state = "backlog", ![c].peer_open = TRUE]
  /\ backlog' = Append(backlog, c)
  /\ UNCHANGED <<NDEBUG, other, mtx_, wpc, ppc, mtx, interrupt, stopped, sigmask, stop_requested,
                 isockets, pipe, pending, wait_result, svc, sig, hist>>

\* the peer sends its next byte, of at most max
PeerSendUpTo(c, max) ==
  /\ conn[c].peer_open
  /\ conn[c].state \in {"backlog", "open"}
  /\ conn[c].sent < max
  /\ conn' = [conn EXCEPT ![c].sent = @ + 1, ![c].inq = Append(@, conn[c].sent + 1)]
  /\ UNCHANGED <<NDEBUG, other, mtx_, wpc, ppc, mtx, interrupt, stopped, sigmask, stop_requested,
                 isockets, pipe, pending, wait_result, svc, backlog, sig, hist>>

PeerSend(c) == PeerSendUpTo(c, MaxBytes)

PeerClose(c) ==
  /\ conn[c].peer_open
  /\ conn' = [conn EXCEPT ![c].peer_open = FALSE]
  /\ UNCHANGED <<NDEBUG, other, mtx_, wpc, ppc, mtx, interrupt, stopped, sigmask, stop_requested,
                 isockets, pipe, pending, wait_result, svc, backlog, sig, hist>>

\* ------------------------------------------------------------ specifications
\* steps of the worker thread that are the same for every Service
WorkerCore ==
  \/ SocketpairOk \/ SocketpairFail \/ Install \/ Prime \/ Notify
  \/ WaitFalsy \/ IsrWake \/ Teardown \/ NotifyStop

\* steps the worker thread takes when they are possible
TestWorker == WorkerCore \/ StartTestService
TcpWorker ==
  \/ WorkerCore \/ StartTcpService \/ AcceptComplete \/ ConnectComplete
  \/ (\E c \in Peers : RecvComplete(c))

\* I/O failures the environment injects
Failure == AcceptError \/ (\E c \in Peers : RecvError(c))

Parent ==
  \/ Start \/ CvSkip \/ CvLock \/ CvCheck \/ CvBlock
  \/ (\E n \in Signals : SignalCall(n)) \/ Destroy
  \/ SignalTest \/ SignalOr \/ SignalSnapshot \/ SignalInvoke \/ Join \/ JoinUnstarted

Peer == \E c \in Peers : PeerConnect(c) \/ PeerSend(c) \/ PeerClose(c)

\* async_service<test_service>, as in the tests of async_service
Next == TestWorker \/ Parent
Spec == Init /\ [][Next]_vars
\* Both threads are scheduled.
FairSpec == Spec /\ WF_vars(TestWorker) /\ WF_vars(Parent)

\* two async_service<test_service> workers in one process
WorkersNext == Next \/ OtherWorker
WorkersSpec == Init /\ [][WorkersNext]_vars

\* async_service over a TCP service with peers
TcpNext == TcpWorker \/ Failure \/ Parent \/ Peer
TcpSpec == TcpInit /\ [][TcpNext]_vars
\* Both threads are scheduled; peers and failures are under no obligation.
FairTcpSpec == TcpSpec /\ WF_vars(TcpWorker) /\ WF_vars(Parent)
\* Only the worker is scheduled: the parent may never signal or destroy it.
WorkerFairTcpSpec == TcpSpec /\ WF_vars(TcpWorker)

\* A bare async_context, no worker and no service: the program assigns
\* callables to the interrupt and calls signal, as in SignalTest.
CellInit ==
  /\ NDEBUG \in BOOLEAN
  /\ other = IdleWorker
  /\ wpc = "unstarted" /\ ppc = "ready" /\ mtx = "free"
  /\ interrupt = "empty" /\ mtx_ = "free"
  /\ stopped = FALSE /\ sigmask = 0 /\ stop_requested = FALSE
  /\ isockets = <<"invalid", "invalid">> /\ pipe = <<>>
  /\ pending = EmptyBag /\ wait_result = "none"
  /\ svc = InitSvc("none")
  /\ backlog = <<>>
  /\ conn = [c \in {SelfConn} \cup Peers |-> IdleConn]
  /\ sig = NoSig /\ hist = InitHist
\* the steps of a signal() call
SignalSteps == SignalTest \/ SignalOr \/ SignalSnapshot \/ SignalInvoke
CellNext ==
  \/ (\E k \in Callables : Assign(k))
  \/ (\E n \in Signums : SignalCall(n))
  \/ SignalSteps
CellSpec == CellInit /\ [][CellNext]_vars
\* A call of signal() that can take a step does.
FairCellSpec == CellSpec /\ WF_vars(SignalSteps)

\* async_service over a stream handler that sends
EchoWorker == TcpWorker \/ (\E c \in Peers : SendComplete(c))
EchoFailure == Failure \/ (\E c \in Peers : SendError(c))
EchoNext == EchoWorker \/ EchoFailure \/ Parent \/ Peer
EchoSpec == EchoInit /\ [][EchoNext]_vars
\* Both threads are scheduled; peers and failures are under no obligation.
FairEchoSpec == EchoSpec /\ WF_vars(EchoWorker) /\ WF_vars(Parent)

\* async_service over segment_service, with peers that send enough for a
\* read to follow a short send
SegmentInit == InitWith({InitSvc("segment_service")})
SegmentPeer ==
  \E c \in Peers : PeerConnect(c) \/ PeerSendUpTo(c, MaxSegmentBytes) \/ PeerClose(c)
SegmentNext == EchoWorker \/ EchoFailure \/ Parent \/ SegmentPeer
SegmentSpec == SegmentInit /\ [][SegmentNext]_vars

\* async_service over each stream handler of the repository
HandlersInit ==
  InitWith({InitSvc(k) : k \in TcpKinds \cup EchoKinds})
HandlersSpec == HandlersInit /\ [][EchoNext]_vars

\* -------------------------------------------------------------------- claims
Handled(n) == Count(hist.handled, n)
\* no signal() call is in progress and none has thrown
SignalsDone == sig.pc = "idle" /\ ppc # "threw"

\* C1: once signal(TERMINATE) has set its bit on a worker whose interrupt is
\* installed, the worker eventually sets stopped and its thread function
\* returns (so that join returns), whatever connections and reads are open.
C1_Termination ==
  (hist.posted[terminate] > 0) ~> (stopped /\ wpc = "returned")

\* C2: when stopped is true, every signal(n) that was posted while the
\* interrupt was installed (and has returned) has had signal_handler(n) run.
C2_SignalDelivery ==
  (stopped /\ SignalsDone) =>
    \A n \in Signals : hist.posted[n] > 0 => Handled(n) >= 1

\* C3: at every moment, for every n, signal_handler(n) has been invoked at
\* most as often as signal(n) has been called.
C3_CoalescingBound ==
  \A n \in Signals : Handled(n) <= hist.called[n]

\* two signal(USER1) calls, both wake bytes received, one dispatch
C3_Witness ==
  /\ hist.called[user1] = 2 /\ hist.invoked[user1] = 2 /\ SignalsDone
  /\ pipe = <<>> /\ sigmask = 0 /\ Handled(user1) = 1 /\ wpc = "loop"

\* C4: a signal(n) call that finds no interrupt installed returns at once:
\* sigmask and the wake bytes are untouched and nothing is invoked.
C4_SignalNoop ==
  [][(sig.pc = "test" /\ interrupt = "empty" /\ sig' # sig) =>
       /\ sig' = NoSig
       /\ sigmask' = sigmask /\ pipe' = pipe
       /\ hist'.posted = hist.posted /\ hist'.invoked = hist.invoked]_vars

\* signal() has returned from a context whose interrupt was never installed
\* or is torn down, having posted and invoked nothing
C4_Witness ==
  /\ SignalsDone /\ interrupt = "empty" /\ stopped
  /\ hist.called[user1] = 1 /\ hist.posted[user1] = 0 /\ hist.invoked[user1] = 0

\* the signal(n) call in progress has set its bit and not yet invoked
InFlight(n) ==
  IF sig.signum = n /\ sig.pc \in {"snapshot", "invoke"} THEN 1 ELSE 0

InCvWait == ppc \in {"cv_check", "cv_block", "cv_waiting", "cv_lock"}

\* C6: the parent's wait on cv for `interrupt || stopped` always returns,
\* whether it starts before or after the worker installs the interrupt or
\* tears down.
C6_Handshake == InCvWait ~> (ppc = "ready")

\* the parent blocked before the interrupt was installed, was notified and
\* returned from the wait
C6_Witness ==
  /\ ppc = "ready" /\ hist.woken = 1 /\ interrupt = "sendmsg" /\ ~stopped

\* the interrupt has been installed and signal(TERMINATE) was never called
Running == hist.installed > 0 /\ hist.called[terminate] = 0

\* C7: while only USER1 has been signalled, the worker does not stop: stopped
\* stays false, no stop is requested and the ISR stays armed; a single
\* signal(USER1) is dispatched once and only once.
C7_User1KeepsRunning ==
  /\ [](Running =>
          /\ ~stopped /\ ~hist.isr_stop /\ ~stop_requested
          /\ interrupt = "sendmsg"
          /\ wpc \in {"prime", "notify", "start", "loop"}
          /\ (wpc # "prime" => BagIn(<<"isr", 0>>, pending)))
  /\ [](hist.called[user1] = 1 => Handled(user1) <= 1)
  /\ ((Running /\ hist.posted[user1] = 1) ~> (Handled(user1) = 1))

\* one signal(USER1) was dispatched and the ISR waits for the next wake
C7_Witness ==
  /\ Running /\ hist.called[user1] = 1 /\ SignalsDone /\ Handled(user1) = 1
  /\ pipe = <<>> /\ wpc = "loop" /\ BagIn(<<"isr", 0>>, pending) /\ ~stopped

\* socketpair has failed
SocketpairFailed == isockets[1] = "invalid" /\ wpc \notin {"unstarted", "socketpair"}

\* C8: after a socketpair failure the interrupt is never installed, the
\* service is neither started nor signalled, no socket is closed, nothing is
\* spawned; the worker sets stopped, notifies cv and returns, and the
\* destructor's join returns.
C8_SocketpairFailure ==
  /\ [](SocketpairFailed =>
          /\ interrupt = "empty" /\ hist.installed = 0
          /\ ~svc.test_started /\ hist.handled = <<>>
          /\ isockets = <<"invalid", "invalid">>
          /\ Drained(pending) /\ pipe = <<>>
          /\ (wpc = "returned" => stopped /\ hist.notified = 1))
  /\ (SocketpairFailed ~> (stopped /\ wpc = "returned" /\ ppc = "joined"))

\* the parent waited on cv, found stopped with no interrupt, and joined
C8_Witness ==
  /\ SocketpairFailed /\ stopped /\ interrupt = "empty"
  /\ hist.woken = 1 /\ ppc = "joined"

\* C9: stopped implies that the interrupt cell is empty, and stopped never
\* goes back to false.
C9_StoppedImpliesNoInterrupt ==
  /\ [](stopped => interrupt = "empty")
  /\ [][stopped => stopped']_vars

\* an installed interrupt was cleared and stopped set
C9_Witness == stopped /\ hist.installed = 1 /\ interrupt = "empty"

\* C10: once the thread function has returned, stopped is true, the interrupt
\* is empty and nothing is unresolved in the scope; stopped is set only after
\* wait() returned falsy or socketpair failed.
C10_ShutdownPostState ==
  /\ wpc = "returned" => (stopped /\ interrupt = "empty" /\ Drained(pending))
  /\ stopped => (wait_result = "falsy" \/ isockets[1] = "invalid")
  /\ wait_result = "falsy" => Drained(pending)

\* a worker that served a connection and dispatched a signal has returned
C10_Witness ==
  /\ wpc = "returned" /\ hist.handled # <<>>
  /\ conn[1].seen # <<>> /\ conn[1].state = "released"

\* C11: a listener never has more than one unresolved accept sender.
C11_OneAcceptInFlight == Unresolved(pending, <<"accept", 0>>) <= 1

\* an accept is unresolved again after an earlier accept completed
C11_Witness ==
  /\ Unresolved(pending, <<"accept", 0>>) = 1
  /\ conn[1].state = "open" /\ conn[1].calls = 1

\* the bytes recvmsg has delivered on connection c: those sent by the peer
\* and no longer queued
Delivered(c) == [i \in 1 .. (conn[c].sent - Len(conn[c].inq)) |-> i]

\* C12: on every connection the spans given to the read callback, put end to
\* end, are the bytes recvmsg delivered on it, in order, none lost or repeated.
C12_ReadExactness == \A c \in Peers : conn[c].seen = Delivered(c)

\* two reads of one byte each, the second into the buffer the first used
C12_Witness ==
  /\ conn[1].calls = 2 /\ conn[1].seen = <<1, 2>> /\ conn[1].buffer = <<2>>

\* the handlers that restart the reader only when their send has completed
Blocking == svc.kind \in {"echo_block_service", "segment_service"}

\* C13: a connection has at most one unresolved recvmsg, and none between the
\* read callback and the handler's call of reader: while a blocking handler's
\* sendmsg is unresolved, and for ever when the handler never calls reader.
C13_Backpressure ==
  \A c \in Peers :
    /\ Unresolved(pending, <<"recvmsg", c>>) <= 1
    /\ (Blocking /\ (BagIn(<<"sendmsg", c>>, pending) \/ conn[c].failed))
         => Unresolved(pending, <<"recvmsg", c>>) = 0

\* the handler's send failed, so it never called reader: bytes wait on the
\* connection and no read is pending although no stop was requested
C13_Witness ==
  /\ svc.kind = "echo_block_service" /\ ~stop_requested
  /\ conn[1].calls = 1 /\ conn[1].failed /\ conn[1].out = <<>>
  /\ conn[1].inq # <<>> /\ Unresolved(pending, <<"recvmsg", 1>>) = 0

\* the step completes c's recvmsg with length 0
ZeroRead(c) ==
  /\ BagIn(<<"recvmsg", c>>, pending)
  /\ conn[c].inq = <<>>
  /\ Unresolved(pending', <<"recvmsg", c>>) < Unresolved(pending, <<"recvmsg", c>>)
  /\ ~conn'[c].failed

\* C14: when a recvmsg completes with length 0 the read callback is not
\* called, no reader is spawned for the connection and its read_context is
\* released.
C14_PeerClose ==
  [][\A c \in Peers :
       ZeroRead(c) =>
         /\ conn'[c].calls = conn[c].calls /\ conn'[c].seen = conn[c].seen
         /\ Unresolved(pending', <<"recvmsg", c>>) = 0
         /\ conn'[c].state = "released"]_vars

\* a connection that was read from ended by the peer's close, not by a stop
\* or an error
C14_Witness ==
  /\ conn[1].state = "released" /\ conn[1].calls >= 1 /\ ~conn[1].failed
  /\ ~conn[1].peer_open /\ conn[1].inq = <<>> /\ ~stop_requested

\* initialize_ returned an error
SetupFailed == svc.error \notin {"unset", "none"}

\* C15: when initialize_ fails, start requests the stop, installs no stop_,
\* registers no listener and no accept is ever spawned.
C15_SetupFailure ==
  SetupFailed =>
    /\ stop_requested /\ ~svc.stop_ /\ ~svc.emplaced /\ ~svc.listening
    /\ Unresolved(pending, <<"accept", 0>>) = 0
    /\ backlog = <<>>
    /\ \A c \in Peers : conn[c].state = "closed"

\* the handler's initialize returned an error and the loop runs
C15_Witness ==
  /\ svc.error = "initialize" /\ svc.setup = <<"setsockopt", "initialize">>
  /\ wpc = "loop"

\* C16: after a setup failure signal_handler(terminate) does nothing (no
\* self-connect is spawned) and a signal(terminate) still ends the run:
\* wait() returns falsy and stopped is reached.
C16_TerminateAfterSetupFailure ==
  /\ [](SetupFailed => Unresolved(pending, <<"connect", 0>>) = 0)
  /\ ((SetupFailed /\ hist.posted[terminate] > 0)
        ~> (wait_result = "falsy" /\ stopped))

\* bind failed, terminate was dispatched and the worker stopped
C16_Witness ==
  /\ svc.error = "bind" /\ Handled(terminate) = 1
  /\ wait_result = "falsy" /\ stopped

\* C17: after a setup failure in a worker the loop drains and the worker
\* stops and notifies cv, with no signal sent.
C17_SetupFailureExits == SetupFailed ~> (stopped /\ wpc = "returned")

\* C18: when the handler defines initialize, in whatever return type, start
\* calls it once, before bind and listen.
C18_InitializeDelegated ==
  (HandlerInitialize(svc.kind) # "none" /\ InSeq("bind", svc.setup))
    => /\ Count(svc.setup, "initialize") = 1
       /\ \A i, j \in DOMAIN svc.setup :
            (svc.setup[i] = "initialize" /\ svc.setup[j] = "bind") => i < j

\* at most one client has ever connected
SingleClient == Cardinality({c \in Peers : conn[c].state # "closed"}) <= 1
Echoes == svc.kind \in {"echo_service", "echo_block_service"}
\* nothing obliges the service to go on echoing on c
Quit(c) ==
  \/ stop_requested \/ conn[c].failed \/ ~conn[c].peer_open
  \/ conn[c].state = "released" \/ ~SingleClient

\* C19: with a single client of an echo handler, what the service has sent
\* back is at every moment a prefix of what the client sent, and every byte
\* the client sent is sent back as long as the service runs and the client
\* stays.
C19_Echo ==
  /\ [](\A c \in Peers :
          (Echoes /\ SingleClient) =>
            /\ Len(conn[c].out) <= Len(conn[c].seen)
            /\ \A i \in DOMAIN conn[c].out : conn[c].out[i] = i)
  /\ \A c \in Peers :
       []<>(Echoes => (Len(conn[c].out) = conn[c].sent \/ Quit(c)))

\* two bytes read at once by echo_service and sent back, the queue empty again
C19_Witness ==
  /\ svc.kind = "echo_service" /\ conn[1].calls = 1
  /\ conn[1].out = <<1, 2>> /\ svc.queue = <<>> /\ ~stop_requested

\* C20: the cell's mutex is not held while the callable runs; a call whose
\* callable clears, assigns or tests the cell returns; the call runs the
\* callable it took as its snapshot, and what the callable assigned is in the
\* cell afterwards.
C20_InvokeOutsideLock ==
  /\ [](sig.pc = "invoke" => mtx_ = "free")
  /\ [][(sig.pc = "invoke" /\ sig' # sig /\ sig.func \in Callables)
          => /\ hist'.ran = Append(hist.ran, sig.func)
             /\ interrupt' = body(sig.func, interrupt)]_vars
  /\ ((sig.pc # "idle") ~> (sig.pc = "idle" /\ ppc = "ready"))

\* a callable that clears the cell from inside its call has run and returned
C20_Witness ==
  /\ hist.ran = <<"clear">> /\ interrupt = "empty"
  /\ sig.pc = "idle" /\ ppc = "ready" /\ mtx_ = "free"

\* C21: signal(n) with n outside [0, END) is rejected: it sets no bit of
\* sigmask and does not invoke the interrupt, so sigmask never has a bit at
\* index END or above.
C21_RangeRejected ==
  /\ sigmask < Pow2(END)
  /\ \A n \in Signums \ Signals : hist.posted[n] = 0 /\ hist.invoked[n] = 0

\* the signals whose bit is set in mask, in increasing order
BitsOf(mask) == SelectSeq([i \in 1 .. END |-> i - 1], LAMBDA n : Bit(mask, n) = 1)

\* C22: a step that takes bits out of sigmask or calls signal_handler is one
\* ISR wake: it leaves sigmask zero and calls signal_handler once for every
\* bit set in the value it exchanged, in increasing order, and for no other
\* signal.  A bit set by a concurrent signal() is dispatched or still set in
\* sigmask, and no signal is dispatched more often than it was posted.
C22_SnapshotDispatch ==
  /\ [][(sigmask' < sigmask \/ hist'.handled # hist.handled)
          => /\ sigmask' = 0
             /\ hist'.handled = hist.handled \o BitsOf(sigmask)]_vars
  /\ [](\A n \in Signals :
          /\ hist.posted[n] > 0 => (Handled(n) >= 1 \/ Bit(sigmask, n) = 1)
          /\ Handled(n) <= hist.posted[n])
\* one wake found both bits set and dispatched terminate, then user1
C22_Witness ==
  /\ hist.handled = <<terminate, user1>>
  /\ sigmask = 0 /\ svc.test_signal = user1

\* the step is an ISR wake: the ISR's recvmsg takes bytes off the socketpair
IsrWoke == Len(pipe') < Len(pipe)

\* C23: after a wake the ISR spawns its read again exactly when the value it
\* exchanged has no terminate bit (an empty value dispatches nothing and the
\* read is armed again); when it has the bit the ISR itself requests the
\* scope's stop and does not spawn the read, then or later.
C23_IsrContinuation ==
  /\ [][IsrWoke =>
          IF Bit(sigmask, terminate) = 0
            THEN /\ Unresolved(pending', <<"isr", 0>>) = 1
                 /\ stop_requested' = stop_requested
                 /\ ~hist'.isr_stop
                 /\ sigmask = 0 => hist'.handled = hist.handled
            ELSE /\ Unresolved(pending', <<"isr", 0>>) = 0
                 /\ stop_requested' /\ hist'.isr_stop]_vars
  /\ [](hist.isr_stop => stop_requested /\ Unresolved(pending, <<"isr", 0>>) = 0)
\* test_service's signal_handler requests no stop: the ISR did
C23_Witness ==
  /\ svc.kind = "test_service" /\ Handled(terminate) = 1
  /\ hist.isr_stop /\ stop_requested /\ ~BagIn(<<"isr", 0>>, pending)
  /\ wpc = "loop"

\* stop_ has run
StopRan == svc.target # "none"

\* C24: once stop_ has run on a TCP service that started, the pending accept
\* eventually resolves; from the stop request on the acceptor arms no accept;
\* the self-connection gets no reader and the read callback is never invoked
\* for it.
C24_StopChoreography ==
  /\ StopRan ~> (Unresolved(pending, <<"accept", 0>>) = 0 /\ ~svc.listening)
  /\ [][stop_requested =>
          Unresolved(pending', <<"accept", 0>>) <= Unresolved(pending, <<"accept", 0>>)]_vars
  /\ [](/\ Unresolved(pending, <<"recvmsg", SelfConn>>) = 0
        /\ conn[SelfConn].calls = 0
        /\ conn[SelfConn].state # "open")
\* the self-connection was accepted and its dialog dropped without a read
C24_Witness ==
  /\ StopRan /\ svc.emplaced
  /\ conn[SelfConn].state = "released" /\ conn[SelfConn].calls = 0
  /\ ~svc.listening /\ Drained(pending)

\* C25: every continuation re-entry tests the scope's stop token: once the
\* stop is requested, a completed accept arms no accept and no read, a
\* completed recvmsg arms no read, and a completed ISR read arms no ISR read.
C25_StopTokenChecked ==
  [][stop_requested =>
       /\ AcceptComplete =>
            /\ Unresolved(pending', <<"accept", 0>>) = 0
            /\ \A c \in Peers : Unresolved(pending', <<"recvmsg", c>>)
                                  <= Unresolved(pending, <<"recvmsg", c>>)
       /\ \A c \in Peers : RecvComplete(c) => Unresolved(pending', <<"recvmsg", c>>) = 0
       /\ IsrWake => Unresolved(pending', <<"isr", 0>>) = 0]_vars

\* the senders of the loop other than op are as many after the step as before
OthersUntouched(op) ==
  \A o \in {<<"accept", 0>>, <<"isr", 0>>} \cup {<<"recvmsg", c>> : c \in Peers} :
    o # op => Unresolved(pending', o) = Unresolved(pending, o)

\* C26: an accept error and a recvmsg error are swallowed and arm nothing.
\* After an accept error no accept is pending, then or later, though no stop
\* is requested; after a recvmsg error the read callback is not invoked and
\* the connection has no read pending.  The other connections' reads, the
\* ISR's read and the stop token are as they were.
C26_ErrorsSwallowed ==
  /\ [][AcceptError =>
          /\ Unresolved(pending', <<"accept", 0>>) = 0
          /\ OthersUntouched(<<"accept", 0>>)
          /\ stop_requested' = stop_requested
          /\ \A c \in Peers : conn'[c].calls = conn[c].calls]_vars
  /\ [][\A c \in Peers : RecvError(c) =>
          /\ Unresolved(pending', <<"recvmsg", c>>) = 0
          /\ OthersUntouched(<<"recvmsg", c>>)
          /\ stop_requested' = stop_requested
          /\ \A d \in Peers : conn'[d].calls = conn[d].calls /\ conn'[d].seen = conn[d].seen]_vars
  /\ [](/\ svc.emplaced /\ ~svc.listening => Unresolved(pending, <<"accept", 0>>) = 0
        /\ \A c \in Peers : conn[c].failed => Unresolved(pending, <<"recvmsg", c>>) = 0)
\* an accept error after a connection was accepted, then an error of its read:
\* no stop is requested and the ISR's read is still armed
C26_Witness ==
  /\ svc.emplaced /\ ~svc.listening /\ ~stop_requested
  /\ \E c \in Peers : conn[c].failed /\ conn[c].state = "released"
  /\ BagIn(<<"isr", 0>>, pending) /\ wpc = "loop"

StepOrder == <<"setsockopt", "initialize", "bind", "getsockname", "listen">>
Position(step) == CHOOSE i \in DOMAIN StepOrder : StepOrder[i] = step

\* C27: initialize_ runs SO_REUSEADDR, the handler's initialize, bind,
\* getsockname and listen in this order and stops at the first that fails:
\* the steps run begin with setsockopt and follow each other in the order,
\* the failed step is the last one run, initialize runs at most once, and
\* address_ changes only in a start whose bind succeeded and whose
\* getsockname ran, to the address the socket is bound to.
C27_SetupOrder ==
  /\ [](LET ran == svc.setup IN
          /\ ran # <<>> => ran[1] = "setsockopt"
          /\ \A i \in 1 .. (Len(ran) - 1) :
               \/ Position(ran[i + 1]) = Position(ran[i]) + 1
               \/ ran[i] = "setsockopt" /\ ran[i + 1] = "bind"
          /\ SetupFailed => ran # <<>> /\ ran[Len(ran)] = svc.error
          /\ svc.error = "none" => ran # <<>> /\ ran[Len(ran)] = "listen"
          /\ Count(ran, "initialize") <= 1)
  /\ [][svc'.address_ # svc.address_ =>
          /\ InSeq("bind", svc'.setup) /\ InSeq("getsockname", svc'.setup)
          /\ svc'.error # "bind"
          /\ svc'.address_ = svc'.bound]_vars
\* bind failed after the handler's initialize: neither getsockname nor listen
\* ran and address_ is the one the service was constructed with
C27_Witness ==
  /\ svc.setup = <<"setsockopt", "initialize", "bind">>
  /\ svc.error = "bind" /\ svc.bound = "unbound"
  /\ svc.address_ = "any_port" /\ svc.initialized

\* C28: the address stop_ connects to is the one read back with getsockname
\* after bind, the address the listening socket is bound to: for a service
\* constructed with port 0 it is the ephemeral port, not port 0.
C28_SelfConnectTarget ==
  StopRan => svc.target = svc.bound /\ svc.target # "any_port"
\* a service constructed with port 0 connected to its ephemeral port and the
\* listener accepted the connection
C28_Witness ==
  /\ svc.target = "ephemeral_port" /\ svc.setup # <<>>
  /\ conn[SelfConn].state = "released"

\* C29: under an async worker signal_handler runs only in steps of the
\* worker's loop thread (the ISR's first run and its wakes); the steps of
\* signal() on the calling thread leave the service, the scope and the
\* poller alone: they only set the signal's bit and write the wake byte.
C29_HandlerOnLoopThread ==
  /\ [][hist'.handled # hist.handled => (Prime \/ IsrWake)]_vars
  /\ [][(SignalTest \/ SignalOr \/ SignalSnapshot \/ SignalInvoke) =>
          /\ hist'.handled = hist.handled /\ svc' = svc
          /\ pending' = pending /\ stop_requested' = stop_requested
          /\ sigmask' \in {sigmask, BitOr(sigmask, sig.signum)}
          /\ pipe' \in {pipe, Append(pipe, sig.signum)}]_vars
\* signal(user1) has returned on the parent thread and the worker's loop has
\* run the handler
C29_Witness ==
  /\ hist.invoked[user1] = 1 /\ sig.pc = "idle" /\ ppc = "ready"
  /\ hist.handled = <<user1>> /\ wpc = "loop" /\ ~stop_requested

\* recvmsg operations unresolved on the static buffer of async_service::isr
StaticBufferReads ==
  Unresolved(pending, <<"isr", 0>>) + Unresolved(other.L.pending, <<"isr", 0>>)

\* C30: at most one ISR recvmsg is unresolved on the static scratch buffer at
\* any time, also when two workers of the same Service type run.
C30_OneIsrOnBuffer == StaticBufferReads <= 1

\* C31: the callable a signal() call invokes is never empty, whatever the
\* worker's teardown does between the call's test of the interrupt and its
\* invocation.
C31_NeverInvokesEmpty ==
  /\ ppc # "threw"
  /\ sig.pc = "invoke" => sig.func # "empty"

\* C32: the wake closure never sends on the socketpair's write end after
\* stop() has closed it: at each invocation of the closure the descriptor it
\* captured is open.
C32_NoSendAfterClose ==
  [][(SignalInvoke /\ sig.func = "sendmsg") => isockets[2] = "open"]_vars

\* C33: once signal(user1) has set its bit with the interrupt installed and
\* no signal(terminate) has set its bit yet, stopped is never true without
\* signal_handler(user1) having run: it runs in an earlier wake or in the
\* wake that dispatches terminate.
C33_User1BeforeStop ==
  [](hist.posted[user1] > 0 /\ hist.posted[terminate] = 0
       => [](stopped => Handled(user1) >= 1))
\* terminate and user1 were dispatched by one wake and the worker has stopped
C33_Witness ==
  /\ stopped /\ hist.handled = <<terminate, user1>>
  /\ hist.posted[user1] = 1 /\ hist.posted[terminate] >= 1

\* C34: signal_handler is never invoked before service.start(ctx) has been
\* called on the worker thread.
C34_HandlerAfterStart ==
  hist.handled # <<>> => svc.test_started

\* C35: the destruction of a started worker always completes: once the
\* destructor runs on a worker whose thread was launched, join returns (or
\* the destructor's signal has thrown).
C35_DestroyCompletes ==
  (ppc = "dtor" /\ wpc # "unstarted") ~> (ppc \in {"joined", "threw"})

\* C36: the destruction of a worker on which start() was never called
\* completes normally: signal(terminate) does nothing and join does not fail.
C36_DestroyUnstarted ==
  /\ ppc # "terminated"
  /\ wpc = "unstarted" /\ ppc \in {"dtor", "join"} => sigmask = 0 /\ pipe = <<>>

\* C37 (as claimed): once the scope's stop is requested the read callback is
\* not invoked again for any connection.
C37_NoCallbackAfterStop == \A c \in Peers : conn[c].late = 0

\* C37 (amended): once the scope's stop is requested no recvmsg is armed; a
\* recvmsg that was pending then may complete and give its bytes to the read
\* callback, after which the connection has no read pending: the callback
\* is invoked at most once more per connection.
C37_NoReadAfterStop ==
  /\ [][stop_requested => \A c \in Peers :
          /\ Unresolved(pending', <<"recvmsg", c>>) <= Unresolved(pending, <<"recvmsg", c>>)
          /\ RecvComplete(c) => Unresolved(pending', <<"recvmsg", c>>) = 0
          /\ conn'[c].calls # conn[c].calls =>
               /\ BagIn(<<"recvmsg", c>>, pending)
               /\ conn'[c].calls = conn[c].calls + 1]_vars
  /\ [](\A c \in Peers : conn[c].late <= 1)
\* a read pending at the stop request has given its bytes to the callback
\* and the connection was released
C37_Witness ==
  \E c \in Peers :
    /\ conn[c].late = 1 /\ stop_requested
    /\ ~BagIn(<<"recvmsg", c>>, pending) /\ conn[c].state = "released"

\* C38: for each accepted connection at most one recvmsg is unresolved at
\* any time, with each stream handler of the repository.
C38_OneReadPerConnection ==
  \A c \in Peers : Unresolved(pending, <<"recvmsg", c>>) <= 1
\* segment_service has sent and its reader is armed again
C38_Witness ==
  /\ svc.kind = "segment_service"
  /\ \E c \in Peers : /\ Unresolved(pending, <<"recvmsg", c>>) = 1
                      /\ conn[c].calls >= 1 /\ conn[c].out # <<>>

\* the handlers that send from the read buffer itself
SendsFromReadBuffer == svc.kind \in {"segment_service", "echo_block_service"}

\* C39: with segment_service and echo_block_service a connection never has
\* a recvmsg pending on its read buffer while a sendmsg that reads from the
\* buffer is unresolved: after the first read the reader is armed only by
\* the completion of a send, and not at all when the send fails.
C39_BufferNotShared ==
  /\ [](SendsFromReadBuffer => \A c \in Peers :
          ~(BagIn(<<"recvmsg", c>>, pending) /\ BagIn(<<"sendmsg", c>>, pending)))
  /\ [][SendsFromReadBuffer => \A c \in Peers :
          /\ Unresolved(pending', <<"recvmsg", c>>) > Unresolved(pending, <<"recvmsg", c>>)
               => (AcceptComplete \/ SendComplete(c))
          /\ SendError(c) => /\ Unresolved(pending', <<"recvmsg", c>>) = 0
                             /\ conn'[c].state = "released"]_vars
\* echo_block_service sent a part of the span and sends the rest: no read is
\* armed meanwhile
C39_Witness ==
  /\ svc.kind = "echo_block_service"
  /\ \E c \in Peers : /\ BagIn(<<"sendmsg", c>>, pending)
                      /\ ~BagIn(<<"recvmsg", c>>, pending)
                      /\ conn[c].out # <<>> /\ conn[c].tx # <<>>

\* C40: for a connection served by segment_service the bytes sent back to
\* the peer are at every moment a prefix of the bytes received from it, in
\* order and with nothing skipped, also after a sendmsg that wrote fewer
\* bytes than it was given.
C40_SegmentEchoPrefix ==
  svc.kind = "segment_service" =>
    \A c \in Peers :
      /\ Len(conn[c].out) <= Len(conn[c].seen)
      /\ conn[c].out = SubSeq(conn[c].seen, 1, Len(conn[c].out))

=============================================================================
